---- MODULE Spec2Model ----
(***************************************************************************)
(* Borealis acoustic telemetry decoder (parse_borealis_data.py).           *)
(*                                                                         *)
(* Texts are sequences of character codes (code points).  Byte buffers    *)
(* are sequences of 0..255.  Python lists are sequences; Python index i   *)
(* is sequence index i + 1.  Decibel values are fixed-point integers in   *)
(* units of 1/DbScale dB, frequencies in units of 1/FreqScale Hz: the     *)
(* float arithmetic of the program is modelled by exact (dB) or rounded   *)
(* (Hz) fixed-point arithmetic.  The driver's CSV output is a sequence of  *)
(* rows, a row a sequence of cells, a cell a sequence of character codes.  *)
(* The labels of log-region pgram bins are printed from the rounded        *)
(* fixed-point frequencies and can differ from the program's in the last   *)
(* printed digit.                                                          *)
(***************************************************************************)
EXTENDS Integers, Sequences, FiniteSets, TLC

VARIABLES text, call, df, result, pc, f, log_freqs, frequencies, bits, raw, value,
          args, stdin, lineno, line, data_type, stdout, stderr, marks,
          bufB, bufC, first, second

decodeVars == <<text, call, result>>

freqVars == <<pc, f, log_freqs, frequencies>>

rescaleVars == <<bits, raw, value>>

\* The driver: parsed arguments, the input stream and the number of lines read
\* from it, the loop's locals, the rows written to stdout, the notes written
\* to stderr, and the length of stdout after each line read.
driverVars == <<args, stdin, lineno, line, data_type, stdout, stderr, marks>>

\* Two buffers and the outcomes of applying one function to both.
pairVars == <<bufB, bufC, first, second>>

vars == <<text, call, df, result, pc, f, log_freqs, frequencies, bits, raw, value,
          driverVars, pairVars>>

(***************************************************************************)
(* Bounds of the model.                                                    *)
(***************************************************************************)
MaxLen == 5

MaxBytes == 6

MaxLongBytes == 9

MaxBits == 12

MaxPrefixBytes == 5

MaxSuffixBytes == 3

MaxGroups == 2

MaxLines == 2

(***************************************************************************)
(* Integer helpers for Python's int operators.                             *)
(***************************************************************************)
RECURSIVE Pow2(_)
Pow2(n) == IF n = 0 THEN 1 ELSE 2 * Pow2(n - 1)

ShiftLeft(x, n) == x * Pow2(n)

ShiftRight(x, n) == x \div Pow2(n)

RECURSIVE BitAnd(_, _)
BitAnd(x, y) ==
    IF x = 0 \/ y = 0 THEN 0
    ELSE (IF x % 2 = 1 /\ y % 2 = 1 THEN 1 ELSE 0) + 2 * BitAnd(x \div 2, y \div 2)

RECURSIVE BitOr(_, _)
BitOr(x, y) ==
    IF x = 0 THEN y
    ELSE IF y = 0 THEN x
    ELSE (IF x % 2 = 1 \/ y % 2 = 1 THEN 1 ELSE 0) + 2 * BitOr(x \div 2, y \div 2)

Min(a, b) == IF a < b THEN a ELSE b

\* Python slice seq[lo:hi] for 0 <= lo <= hi (hi is clamped to the length).
Slice(seq, lo, hi) == SubSeq(seq, lo + 1, Min(hi, Len(seq)))

(***************************************************************************)
(* Optional[...] return values.                                            *)
(***************************************************************************)
None == [isNone |-> TRUE, list |-> <<>>]

Some(l) == [isNone |-> FALSE, list |-> l]

(***************************************************************************)
(* base64.b64decode(s) with the default validate=False, a str argument.    *)
(* The str is first encoded to ASCII (ValueError on a non-ASCII            *)
(* character), then binascii.a2b_base64 runs in non-strict mode:           *)
(* characters outside the alphabet are skipped, a pad that completes a     *)
(* quad ends the decode, leftover data characters raise binascii.Error.    *)
(***************************************************************************)
BASE64_PAD == 61

\* The 6-bit value of an alphabet character, 64 for any other character.
table_a2b_base64(c) ==
    IF c >= 65 /\ c <= 90 THEN c - 65
    ELSE IF c >= 97 /\ c <= 122 THEN c - 97 + 26
    ELSE IF c >= 48 /\ c <= 57 THEN c - 48 + 52
    ELSE IF c = 43 THEN 62
    ELSE IF c = 47 THEN 63
    ELSE 64

Raised == [raised |-> TRUE, bytes |-> <<>>]

Returned(b) == [raised |-> FALSE, bytes |-> b]

\* The decoder's loop variables before the first character.
a2b_start == [quad_pos |-> 0, leftchar |-> 0, pads |-> 0, bin |-> <<>>, done |-> FALSE]

\* One iteration of the decoder's loop over the characters (done: goto done).
a2b_step(st, this_ch) ==
    LET v == table_a2b_base64(this_ch)
    IN IF st.done THEN st
       ELSE IF this_ch = BASE64_PAD
       THEN IF st.quad_pos >= 2 /\ st.quad_pos + st.pads + 1 >= 4
            THEN [st EXCEPT !.done = TRUE]
            ELSE [st EXCEPT !.pads = IF st.quad_pos >= 2 THEN @ + 1 ELSE @]
       ELSE IF v >= 64
       THEN st
       ELSE IF st.quad_pos = 0
       THEN [st EXCEPT !.quad_pos = 1, !.leftchar = v, !.pads = 0]
       ELSE IF st.quad_pos = 1
       THEN [st EXCEPT !.quad_pos = 2, !.leftchar = BitAnd(v, 15), !.pads = 0,
                       !.bin = Append(@, BitOr(ShiftLeft(st.leftchar, 2),
                                               ShiftRight(v, 4)))]
       ELSE IF st.quad_pos = 2
       THEN [st EXCEPT !.quad_pos = 3, !.leftchar = BitAnd(v, 3), !.pads = 0,
                       !.bin = Append(@, BitOr(ShiftLeft(st.leftchar, 4),
                                               ShiftRight(v, 2)))]
       ELSE [st EXCEPT !.quad_pos = 0, !.leftchar = 0, !.pads = 0,
                       !.bin = Append(@, BitOr(ShiftLeft(st.leftchar, 6), v))]

\* The loop over data[lo..hi], left to right: the left half is evaluated
\* first and its final state handed to the right half.
RECURSIVE a2b_loop(_, _, _, _)
a2b_loop(data, lo, hi, st) ==
    IF lo > hi THEN st
    ELSE IF lo = hi THEN a2b_step(st, data[lo])
    ELSE LET mid == (lo + hi) \div 2
         IN CHOOSE r \in {a2b_loop(data, mid + 1, hi, l) :
                            l \in {a2b_loop(data, lo, mid, st)}} : TRUE

a2b_base64(data) ==
    LET st == a2b_loop(data, 1, Len(data), a2b_start)
    IN IF ~st.done /\ st.quad_pos # 0 THEN Raised ELSE Returned(st.bin)

b64decode(s) ==
    IF \E i \in 1..Len(s) : s[i] >= 128
    THEN Raised
    ELSE a2b_base64(s)

(***************************************************************************)
(* Calibration.                                                            *)
(***************************************************************************)
\* Fixed-point units per dB: 192 / 2^bits and 185.642 are whole numbers of units.
DbScale == 1000 * Pow2(6)

MIN_BOREALIS_SPL_DB == (0 - 192) * DbScale + 185642 * (DbScale \div 1000)

\* calc_db_step_for_bits dividing by the largest raw value instead of the range.
calc_db_step_for_bits_max(bits_per_datum) ==
    LET data_range == Pow2(bits_per_datum) - 1
    IN (192 * DbScale) \div data_range

calc_db_step_for_bits(bits_per_datum) ==
    LET data_range == Pow2(bits_per_datum)
    IN (192 * DbScale) \div data_range

(***************************************************************************)
(* Nibble unpacking.                                                       *)
(***************************************************************************)
\* ibyte = inibble_abs // 2, the byte unpack_nibble reads.
nibble_ibyte(inibble_abs) == inibble_abs \div 2

\* unpack_nibble taking the high nibble first.
unpack_nibble_high_first(bytes, inibble_abs) ==
    LET ibyte == nibble_ibyte(inibble_abs)
        inibble == inibble_abs % 2
    IN BitAnd(ShiftRight(bytes[ibyte + 1], 4 * (1 - inibble)), 15)

\* unpack_nibble without the & 0xF mask.
unpack_nibble_unmasked(bytes, inibble_abs) ==
    LET ibyte == nibble_ibyte(inibble_abs)
        inibble == inibble_abs % 2
    IN ShiftRight(bytes[ibyte + 1], 4 * inibble)

unpack_nibble(bytes, inibble_abs) ==
    LET ibyte == nibble_ibyte(inibble_abs)
        inibble == inibble_abs % 2
    IN BitAnd(ShiftRight(bytes[ibyte + 1], 4 * inibble), 15)

\* The nibbles unpack_three_nibbles asks unpack_nibble for.
three_nibbles_indices(inibble_abs) == {inibble_abs + 0, inibble_abs + 1, inibble_abs + 2}

\* unpack_three_nibbles placing the third nibble one nibble too high.
unpack_three_nibbles_wide(bytes, inibble_abs) ==
    BitOr(BitOr(ShiftLeft(unpack_nibble(bytes, inibble_abs + 0), 0),
                ShiftLeft(unpack_nibble(bytes, inibble_abs + 1), 4)),
          ShiftLeft(unpack_nibble(bytes, inibble_abs + 2), 12))

unpack_three_nibbles(bytes, inibble_abs) ==
    BitOr(BitOr(ShiftLeft(unpack_nibble(bytes, inibble_abs + 0), 0),
                ShiftLeft(unpack_nibble(bytes, inibble_abs + 1), 4)),
          ShiftLeft(unpack_nibble(bytes, inibble_abs + 2), 8))

(***************************************************************************)
(* The three decode functions.                                             *)
(***************************************************************************)
\* parse_borealis_spectrum rejecting a buffer that is not whole 3-byte groups.
parse_borealis_spectrum_reject(base64_string) ==
    LET dec == b64decode(base64_string)
    IN IF dec.raised \/ Len(dec.bytes) % 3 # 0 THEN None
       ELSE LET raw_bytes == dec.bytes
                cstep == calc_db_step_for_bits(12)
                D == (Len(raw_bytes) * 2) \div 3
            IN Some([id \in 1..D |->
                       unpack_three_nibbles(raw_bytes, 3 * (id - 1)) * cstep
                         + MIN_BOREALIS_SPL_DB])

\* D rounded up: a sample for the incomplete trailing group as well.
spectrum_D_ceil(raw_bytes) == (Len(raw_bytes) * 2 + 2) \div 3

\* D = (len(raw_bytes) * 2) // 3
spectrum_D(raw_bytes) == (Len(raw_bytes) * 2) \div 3

\* Every nibble the list comprehension asks for: 3 * id + 0, 1, 2 for id in range(D).
spectrum_nibble_indices(raw_bytes) ==
    UNION {three_nibbles_indices(3 * id) : id \in 0..(spectrum_D(raw_bytes) - 1)}

\* The raw 12-bit samples of the list comprehension, before scale and shift.
raw_samples(raw_bytes) ==
    [id \in 1..spectrum_D(raw_bytes) |-> unpack_three_nibbles(raw_bytes, 3 * (id - 1))]

\* The uncaught IndexError of a bytes subscript out of range.
IndexError == [isNone |-> FALSE, list |-> <<>>, error |-> "IndexError"]

parse_borealis_spectrum(base64_string) ==
    LET dec == b64decode(base64_string)
    IN IF dec.raised THEN None
       ELSE LET raw_bytes == dec.bytes
                cstep == calc_db_step_for_bits(12)
                D == spectrum_D(raw_bytes)
            IN IF \E n \in spectrum_nibble_indices(raw_bytes) :
                      nibble_ibyte(n) >= Len(raw_bytes)
               THEN IndexError
               ELSE Some([id \in 1..D |->
                            unpack_three_nibbles(raw_bytes, 3 * (id - 1)) * cstep
                              + MIN_BOREALIS_SPL_DB])

\* parse_borealis_pgram stopping one byte early.
parse_borealis_pgram_short(base64_string, dfArg) ==
    LET dec == b64decode(base64_string)
    IN IF dec.raised THEN None
       ELSE LET raw_bytes == dec.bytes
                cstep == calc_db_step_for_bits(8)
            IN Some([i \in 1..(Len(raw_bytes) - 1) |->
                       raw_bytes[i] * cstep + MIN_BOREALIS_SPL_DB])

\* parse_borealis_pgram taking df for the calibration step.
parse_borealis_pgram_df_step(base64_string, dfArg) ==
    LET dec == b64decode(base64_string)
    IN IF dec.raised THEN None
       ELSE LET raw_bytes == dec.bytes
                cstep == dfArg
            IN Some([i \in 1..Len(raw_bytes) |->
                       raw_bytes[i] * cstep + MIN_BOREALIS_SPL_DB])

parse_borealis_pgram(base64_string, dfArg) ==
    LET dec == b64decode(base64_string)
    IN IF dec.raised THEN None
       ELSE LET raw_bytes == dec.bytes
                cstep == calc_db_step_for_bits(8)
            IN Some([i \in 1..Len(raw_bytes) |->
                       raw_bytes[i] * cstep + MIN_BOREALIS_SPL_DB])

\* parse_borealis_levels_stats keeping the incomplete trailing group as a row.
parse_borealis_levels_stats_ragged(base64_string) ==
    LET dec == b64decode(base64_string)
    IN IF dec.raised THEN None
       ELSE LET raw_bytes == dec.bytes
                cstep == calc_db_step_for_bits(8)
                K == 4
                D == (Len(raw_bytes) + K - 1) \div K
                tmp == [id \in 1..Len(raw_bytes) |->
                          raw_bytes[id] * cstep + MIN_BOREALIS_SPL_DB]
            IN Some([j \in 1..D |-> Slice(tmp, K * (j - 1), K * (j - 1) + K)])

\* parse_borealis_levels_stats aligning the rows to the end of the buffer: the
\* len % 4 leading bytes are the ones dropped.
parse_borealis_levels_stats_from_end(base64_string) ==
    LET dec == b64decode(base64_string)
    IN IF dec.raised THEN None
       ELSE LET raw_bytes == dec.bytes
                cstep == calc_db_step_for_bits(8)
                K == 4
                D == Len(raw_bytes) \div K
                skip == Len(raw_bytes) % K
                tmp == [id \in 1..(D * K) |->
                          raw_bytes[skip + id] * cstep + MIN_BOREALIS_SPL_DB]
            IN Some([j \in 1..D |-> Slice(tmp, K * (j - 1), K * (j - 1) + K)])

parse_borealis_levels_stats(base64_string) ==
    LET dec == b64decode(base64_string)
    IN IF dec.raised THEN None
       ELSE LET raw_bytes == dec.bytes
                cstep == calc_db_step_for_bits(8)
                K == 4
                D == Len(raw_bytes) \div K
                tmp == [id \in 1..(D * K) |->
                          raw_bytes[id] * cstep + MIN_BOREALIS_SPL_DB]
            IN Some([j \in 1..D |-> Slice(tmp, K * (j - 1), K * (j - 1) + K)])

(***************************************************************************)
(* Float helpers for the frequency axis.  MulBillionths(x, num) is         *)
(* x * (num / 10^9) rounded to the nearest unit, for x < 2^31 / 10 and     *)
(* num < 2 * 10^9, by long multiplication in base 10^4 so that every       *)
(* intermediate value fits 32-bit integers.                                *)
(***************************************************************************)
Billion == 1000 * 1000 * 1000

MulBillionths(x, num) ==
    LET c == num % Billion
        xh == x \div 10000
        xl == x % 10000
        ch == c \div 10000
        cl == c % 10000
        hi == xh * ch
        mid == (xh * cl) + (xl * ch)
        rest == ((hi % 10) * 100000000) + ((mid % 100000) * 10000) + (xl * cl)
        q == (x * (num \div Billion)) + (hi \div 10) + (mid \div 100000)
                 + (rest \div Billion)
    IN IF 2 * (rest % Billion) >= Billion THEN q + 1 ELSE q

Ceil(num, den) == (num + den - 1) \div den

\* Fixed-point units per Hz.
FreqScale == 10 * 1000

\* math.log(2) = 0.693147..., in millionths.
LOG_2 == [num |-> 693147, den |-> 1000 * 1000]

\* 2 ** (1 / 24) = 1.029302236643..., in billionths.
FACTOR_24 == 1029302237

(***************************************************************************)
(* calculate_pgram_frequencies(df) with the default bands_per_octave = 24: *)
(* the pieces of its body; the while loop runs one iteration per step of   *)
(* SpecFreq.                                                               *)
(***************************************************************************)
bands_per_octave == 24

\* N rounded down instead of up.
pgram_N_floor == (bands_per_octave * LOG_2.den) \div LOG_2.num

\* N = math.ceil(bands_per_octave / math.log(2))
pgram_N == Ceil(bands_per_octave * LOG_2.den, LOG_2.num)

\* The linear bins running up to N * df inclusive.
linear_freqs_inclusive(dfArg) == [k \in 1..(pgram_N - 1) |-> (k + 1) * dfArg]

\* [i * df for i in range(2, N)]
linear_freqs(dfArg) == [k \in 1..(pgram_N - 2) |-> (k + 1) * dfArg]

f_start(dfArg) == pgram_N * dfArg

\* while f <= 20000 and len(log_freqs) < 200
LogLoopCond(fv, lf) == fv <= 20000 * FreqScale /\ Len(lf) < 200

\* f *= factor
LogLoopStep(fv) == MulBillionths(fv, FACTOR_24)

(***************************************************************************)
(* calculate_pgram_frequencies(df) as one operator: the while loop runs in *)
(* halves, the first half handing its final f and log_freqs to the second. *)
(* An iteration whose condition is false leaves the loop's state as it is, *)
(* and the cap of 200 entries ends the loop within 200 iterations.         *)
(***************************************************************************)
log_iter(st) ==
    IF LogLoopCond(st.f, st.log_freqs)
    THEN [f |-> LogLoopStep(st.f), log_freqs |-> Append(st.log_freqs, st.f)]
    ELSE st

RECURSIVE log_loop(_, _)
log_loop(st, n) ==
    IF n = 0 THEN st
    ELSE IF n = 1 THEN log_iter(st)
    ELSE CHOOSE r \in {log_loop(l, n - (n \div 2)) : l \in {log_loop(st, n \div 2)}} : TRUE

calculate_pgram_frequencies(dfArg) ==
    LET st == log_loop([f |-> f_start(dfArg), log_freqs |-> <<>>], 200)
    IN linear_freqs(dfArg) \o st.log_freqs

(***************************************************************************)
(* calculate_ansi_midband_frequency(band_index) = 10 ** (band_number / 10) *)
(* as a decimal: the 17 leading digits of 10^(r/10), r = band_number mod   *)
(* 10, and the power of ten band_number div 10.  The digits f"{x:.2f}"     *)
(* prints are those of the double for band indexes up to 110.              *)
(***************************************************************************)
TenToTheTenths ==
    <<<<1, 0, 0, 0, 0, 0, 0, 0, 0, 0, 0, 0, 0, 0, 0, 0, 0>>,
      <<1, 2, 5, 8, 9, 2, 5, 4, 1, 1, 7, 9, 4, 1, 6, 7, 2>>,
      <<1, 5, 8, 4, 8, 9, 3, 1, 9, 2, 4, 6, 1, 1, 1, 3, 4>>,
      <<1, 9, 9, 5, 2, 6, 2, 3, 1, 4, 9, 6, 8, 8, 7, 9, 6>>,
      <<2, 5, 1, 1, 8, 8, 6, 4, 3, 1, 5, 0, 9, 5, 8, 0, 1>>,
      <<3, 1, 6, 2, 2, 7, 7, 6, 6, 0, 1, 6, 8, 3, 7, 9, 3>>,
      <<3, 9, 8, 1, 0, 7, 1, 7, 0, 5, 5, 3, 4, 9, 7, 2, 5>>,
      <<5, 0, 1, 1, 8, 7, 2, 3, 3, 6, 2, 7, 2, 7, 2, 2, 8>>,
      <<6, 3, 0, 9, 5, 7, 3, 4, 4, 4, 8, 0, 1, 9, 3, 2, 4>>,
      <<7, 9, 4, 3, 2, 8, 2, 3, 4, 7, 2, 4, 2, 8, 1, 5, 0>>>>

calculate_ansi_midband_frequency(band_index) ==
    LET band_number == band_index + 16
    IN [mantissa |-> TenToTheTenths[(band_number % 10) + 1],
        exponent |-> band_number \div 10]

(***************************************************************************)
(* f"{x:.2f}": the text of x rounded to hundredths, as character codes.    *)
(***************************************************************************)
RECURSIVE Pow10(_)
Pow10(n) == IF n = 0 THEN 1 ELSE 10 * Pow10(n - 1)

\* The decimal digits of n >= 0, at least 3 of them (units and hundredths).
DigitsOf(n) ==
    LET d == CHOOSE k \in 3..10 : (k = 10 \/ n < Pow10(k)) /\ (k = 3 \/ n >= Pow10(k - 1))
    IN [i \in 1..d |-> (n \div Pow10(d - i)) % 10]

\* A digit sequence plus one in the last place.
Increment(digits) ==
    LET n == Len(digits)
        notNine == {i \in 1..n : digits[i] # 9}
    IN IF notNine = {} THEN <<1>> \o [i \in 1..n |-> 0]
       ELSE LET j == CHOOSE i \in notNine : \A k \in notNine : k <= i
            IN [i \in 1..n |-> IF i < j THEN digits[i]
                               ELSE IF i = j THEN digits[i] + 1 ELSE 0]

\* sign, integer digits, '.', two decimals, of a number of hundredths.
format_hundredths(negative, digits) ==
    LET n == Len(digits)
    IN (IF negative THEN <<45>> ELSE <<>>)
         \o [i \in 1..(n - 2) |-> 48 + digits[i]]
         \o <<46, 48 + digits[n - 1], 48 + digits[n]>>

\* A calibrated level, in 1/DbScale dB.  No level is a tie between two
\* hundredths (192/2^bits steps from -6.358), and a level in (-0.005, 0)
\* prints as -0.00.
format_2f_db(v) ==
    LET a == IF v < 0 THEN 0 - v ELSE v
        unit == DbScale \div 100
    IN format_hundredths(v < 0, DigitsOf((a + (unit \div 2)) \div unit))

\* A pgram frequency >= 0, in 1/FreqScale Hz.  The doubles i * 7.629 at a
\* decimal tie (i = 5, 15, 25) lie below the tie: a tie prints rounded down.
format_2f_hz(fv) ==
    LET unit == FreqScale \div 100
    IN format_hundredths(FALSE, DigitsOf((fv + (unit \div 2) - 1) \div unit))

\* An ANSI midband frequency.
format_2f_ansi(x) ==
    LET n == x.exponent + 3
        m == Len(x.mantissa)
        kept == [i \in 1..n |-> IF i <= m THEN x.mantissa[i] ELSE 0]
        next == IF n + 1 <= m THEN x.mantissa[n + 1] ELSE 0
    IN format_hundredths(FALSE, IF next >= 5 THEN Increment(kept) ELSE kept)

(***************************************************************************)
(* The driver (__main__).  A row of the CSV output is a sequence of cells, *)
(* a cell a sequence of character codes; csv.writer quotes none of the     *)
(* cells the driver writes.                                                *)
(***************************************************************************)
\* The cells "Frequency", "SPL (dB)", "Q1", "Q2", "Q3", "Mean" and "Unknown".
Frequency == <<70, 114, 101, 113, 117, 101, 110, 99, 121>>

SPL_dB == <<83, 80, 76, 32, 40, 100, 66, 41>>

StatsColumns == <<<<81, 49>>, <<81, 50>>, <<81, 51>>, <<77, 101, 97, 110>>>>

Unknown == <<85, 110, 107, 110, 111, 119, 110>>

default_df_note == "# Assuming default sample rate (31250 Hz) and df (7.629 Hz)"

\* str.rstrip(): trailing whitespace characters removed.
IsSpace(c) == c \in {9, 10, 11, 12, 13, 28, 29, 30, 31, 32, 133, 160}

rstrip(s) ==
    LET keep == {i \in 1..Len(s) : ~IsSpace(s[i])}
    IN IF keep = {} THEN <<>>
       ELSE SubSeq(s, 1, CHOOSE i \in keep : \A j \in keep : j <= i)

\* detect_type with the boundary line lengths on the wrong side.
detect_type_inclusive(a, ln) ==
    IF a.data_type # "None" THEN a.data_type
    ELSE IF Len(ln) <= 100 THEN "spectrum"
    ELSE IF Len(ln) <= 200 THEN "statistics"
    ELSE "pgram"

\* data_type = args.data_type, inferred from the line length when None.
detect_type(a, ln) ==
    IF a.data_type # "None" THEN a.data_type
    ELSE IF Len(ln) < 100 THEN "spectrum"
    ELSE IF Len(ln) < 200 THEN "statistics"
    ELSE "pgram"

\* The decode call of the branch taken for data_type.
decode_line(dt, ln, dfArg) ==
    IF dt = "statistics" THEN parse_borealis_levels_stats(ln)
    ELSE IF dt = "spectrum" THEN parse_borealis_spectrum(ln)
    ELSE parse_borealis_pgram(ln, dfArg)

\* spectrum_rows with enumerate starting at 1.
spectrum_rows_from_one(res) ==
    <<<<Frequency, SPL_dB>>>>
      \o [k \in 1..Len(res) |->
            <<format_2f_ansi(calculate_ansi_midband_frequency(k)), format_2f_db(res[k])>>]

\* The header and one row per sample: enumerate index i is k - 1.
spectrum_rows(res) ==
    <<<<Frequency, SPL_dB>>>>
      \o [k \in 1..Len(res) |->
            <<format_2f_ansi(calculate_ansi_midband_frequency(k - 1)),
              format_2f_db(res[k])>>]

statistics_rows(res) ==
    <<<<Frequency>> \o StatsColumns>>
      \o [k \in 1..Len(res) |->
            <<format_2f_ansi(calculate_ansi_midband_frequency(k - 1))>>
              \o [c \in 1..Len(res[k]) |-> format_2f_db(res[k][c])]]

\* pgram_rows zipping the samples with the axis: no row beyond the axis.
pgram_rows_zip(res, freqs) ==
    <<<<Frequency, SPL_dB>>>>
      \o [k \in 1..Min(Len(res), Len(freqs)) |->
            <<format_2f_hz(freqs[k]), format_2f_db(res[k])>>]

pgram_rows(res, freqs) ==
    <<<<Frequency, SPL_dB>>>>
      \o [k \in 1..Len(res) |->
            <<IF k - 1 < Len(freqs) THEN format_2f_hz(freqs[k]) ELSE Unknown,
              format_2f_db(res[k])>>]

\* line_rows testing "if result:", an empty list counting as a failure.
line_rows_if_result(dt, res, dfArg) ==
    IF res.isNone \/ res.list = <<>> THEN <<>>
    ELSE IF dt = "statistics" THEN statistics_rows(res.list)
    ELSE IF dt = "spectrum" THEN spectrum_rows(res.list)
    ELSE pgram_rows(res.list, calculate_pgram_frequencies(dfArg))

\* The rows one loop iteration writes to stdout.
line_rows(dt, res, dfArg) ==
    IF res.isNone THEN <<>>
    ELSE IF dt = "statistics" THEN statistics_rows(res.list)
    ELSE IF dt = "spectrum" THEN spectrum_rows(res.list)
    ELSE pgram_rows(res.list, calculate_pgram_frequencies(dfArg))

\* The note one loop iteration prints to stderr.
line_notes(dt, res, dfArg) ==
    IF dt = "pgram" /\ ~res.isNone /\ dfArg = 76290 THEN <<default_df_note>> ELSE <<>>

(***************************************************************************)
(* Input texts.  A line is an arbitrary short text over TextChars ('A',    *)
(* '/', '=', '!' and the non-ASCII e-acute), the invalid line of           *)
(* test_invalid_base64_handling, or the standard base64 encoding, as the   *)
(* sensor emits it, of a buffer over ByteVals or a longer one over         *)
(* LongByteVals.                                                           *)
(***************************************************************************)
TextChars == {65, 47, 61, 33, 233}

ByteVals == {0, 231, 255}

LongByteVals == {18, 231}

\* "invalid_base64_string!"
invalid_input ==
    <<105, 110, 118, 97, 108, 105, 100, 95, 98, 97, 115, 101, 54, 52, 95,
      115, 116, 114, 105, 110, 103, 33>>

SeqsUpTo(S, n) == UNION {[1..k -> S] : k \in 0..n}

table_b2a_base64(v) ==
    IF v < 26 THEN 65 + v
    ELSE IF v < 52 THEN 97 + (v - 26)
    ELSE IF v < 62 THEN 48 + (v - 52)
    ELSE IF v = 62 THEN 43
    ELSE 47

\* Character i (from 0) of the standard encoding of b, pads included.
b64encode_char(b, i) ==
    LET g == 3 * (i \div 4)
        b0 == b[g + 1]
        b1 == IF g + 2 <= Len(b) THEN b[g + 2] ELSE 0
        b2 == IF g + 3 <= Len(b) THEN b[g + 3] ELSE 0
    IN IF i % 4 = 0 THEN table_b2a_base64(b0 \div 4)
       ELSE IF i % 4 = 1 THEN table_b2a_base64((b0 % 4) * 16 + b1 \div 16)
       ELSE IF i % 4 = 2
       THEN IF g + 2 > Len(b) THEN BASE64_PAD
            ELSE table_b2a_base64((b1 % 16) * 4 + b2 \div 64)
       ELSE IF g + 3 > Len(b) THEN BASE64_PAD
            ELSE table_b2a_base64(b2 % 64)

b64encode(b) == [i \in 1..(4 * ((Len(b) + 2) \div 3)) |-> b64encode_char(b, i - 1)]

Buffers == SeqsUpTo(ByteVals, MaxBytes) \cup SeqsUpTo(LongByteVals, MaxLongBytes)

Texts ==
    SeqsUpTo(TextChars, MaxLen) \cup {invalid_input} \cup {b64encode(b) : b \in Buffers}

\* Bytes with only low, only high, and alternating bits set, and the bytes one
\* byte of a buffer is replaced by.
GroupByteVals == {15, 240}

ReplacementBytes == {0, 1, 16, 128, 165, 255}

\* Buffers of whole 3-byte groups.
GroupBuffers == UNION {[1..(3 * g) -> GroupByteVals] : g \in 0..MaxGroups}

\* b and the buffers that differ from b in one byte.
OneByteChanged(b) ==
    {b} \cup {[b EXCEPT ![i] = v] : i \in 1..Len(b), v \in ReplacementBytes}

\* A sensor payload of n bytes.
payload(n) == [i \in 1..n |-> (37 * i + 11) % 256]

newline == <<10>>

\* The lines of the input stream: an empty and a whitespace-only line, a
\* short spectrum line, the invalid line, and lines whose stripped lengths
\* are 99, 100, 199 and 200 characters.
empty_line == newline

blank_line == <<32, 9, 13>> \o newline

short_line == b64encode(<<231, 0, 255, 0, 231>>) \o newline

invalid_line == invalid_input \o newline

line_99 == b64encode(payload(72)) \o <<61, 61, 61>> \o newline

line_100 == b64encode(payload(75)) \o <<32>> \o newline

line_199 == b64encode(payload(147)) \o <<61, 61, 61>>

line_200 == b64encode(payload(150)) \o newline

DriverLines ==
    {empty_line, blank_line, short_line, invalid_line, line_99, line_100, line_199,
     line_200}

\* --data-type (None when absent) and --df: the default and 600 Hz.
DriverArgs ==
    [data_type : {"None", "spectrum", "statistics", "pgram"}, df : {76290, 6000000}]

\* --df values in 1/FreqScale Hz; 7.629 Hz is the driver's default.
PgramDfs == {76290, 10000}

DfValues == {5000, 10000, 17000, 30000, 76290, 1000000, 5714000, 5715000, 6000000}

(***************************************************************************)
(* The variables of the parts of the program a specification leaves out.   *)
(***************************************************************************)
NoArgs == [data_type |-> "None", df |-> 0]

DriverIdle ==
    /\ args = NoArgs /\ stdin = <<>> /\ lineno = 0 /\ line = <<>>
    /\ data_type = "None" /\ stdout = <<>> /\ stderr = <<>> /\ marks = <<>>

PairIdle == bufB = <<>> /\ bufC = <<>> /\ first = <<>> /\ second = <<>>

(***************************************************************************)
(* One decode call per step, on the line held in text.                     *)
(***************************************************************************)
Init ==
    /\ text \in Texts
    /\ call = "none"
    /\ df = 0
    /\ result = None
    /\ pc = "idle" /\ f = 0 /\ log_freqs = <<>> /\ frequencies = <<>>
    /\ bits = 0 /\ raw = 0 /\ value = 0
    /\ DriverIdle /\ PairIdle

CallSpectrum ==
    /\ call' = "spectrum"
    /\ result' = parse_borealis_spectrum(text)
    /\ UNCHANGED <<text, df, freqVars, rescaleVars, driverVars, pairVars>>

CallStatistics ==
    /\ call' = "statistics"
    /\ result' = parse_borealis_levels_stats(text)
    /\ UNCHANGED <<text, df, freqVars, rescaleVars, driverVars, pairVars>>

CallPgram ==
    \E d \in PgramDfs :
        /\ call' = "pgram"
        /\ df' = d
        /\ result' = parse_borealis_pgram(text, d)
        /\ UNCHANGED <<text, freqVars, rescaleVars, driverVars, pairVars>>

Next == CallSpectrum \/ CallStatistics \/ CallPgram

Spec == Init /\ [][Next]_vars

(***************************************************************************)
(* calculate_pgram_frequencies(df), one loop iteration per step.           *)
(***************************************************************************)
InitFreq ==
    /\ df \in DfValues
    /\ pc = "entry" /\ f = 0 /\ log_freqs = <<>> /\ frequencies = <<>>
    /\ text = <<>> /\ call = "none" /\ result = None
    /\ bits = 0 /\ raw = 0 /\ value = 0
    /\ DriverIdle /\ PairIdle

FreqEnter ==
    /\ pc = "entry"
    /\ f' = f_start(df)
    /\ log_freqs' = <<>>
    /\ pc' = "loop"
    /\ UNCHANGED <<df, frequencies, decodeVars, rescaleVars, driverVars, pairVars>>

FreqLoop ==
    /\ pc = "loop"
    /\ LogLoopCond(f, log_freqs)
    /\ log_freqs' = Append(log_freqs, f)
    /\ f' = LogLoopStep(f)
    /\ UNCHANGED <<df, pc, frequencies, decodeVars, rescaleVars, driverVars, pairVars>>

FreqReturn ==
    /\ pc = "loop"
    /\ ~LogLoopCond(f, log_freqs)
    /\ frequencies' = linear_freqs(df) \o log_freqs
    /\ pc' = "returned"
    /\ UNCHANGED <<df, f, log_freqs, decodeVars, rescaleVars, driverVars, pairVars>>

NextFreq == FreqEnter \/ FreqLoop \/ FreqReturn

SpecFreq == InitFreq /\ [][NextFreq]_vars

(***************************************************************************)
(* The calibration transform raw * cstep + MIN_BOREALIS_SPL_DB.            *)
(***************************************************************************)
InitRescale ==
    /\ bits \in 1..MaxBits
    /\ raw \in 0..(Pow2(bits) - 1)
    /\ value = 0
    /\ pc = "rescale"
    /\ text = <<>> /\ call = "none" /\ result = None /\ df = 0
    /\ f = 0 /\ log_freqs = <<>> /\ frequencies = <<>>
    /\ DriverIdle /\ PairIdle

Rescale ==
    /\ pc = "rescale"
    /\ value' = raw * calc_db_step_for_bits(bits) + MIN_BOREALIS_SPL_DB
    /\ pc' = "rescaled"
    /\ UNCHANGED <<bits, raw, df, f, log_freqs, frequencies, decodeVars, driverVars,
                   pairVars>>

NextRescale == Rescale

SpecRescale == InitRescale /\ [][NextRescale]_vars

(***************************************************************************)
(* One decode function applied to the encoding of a buffer B and to the    *)
(* encoding of B followed by C.                                            *)
(***************************************************************************)
InitAppend ==
    /\ bufB \in SeqsUpTo(LongByteVals, MaxPrefixBytes)
    /\ bufC \in SeqsUpTo(LongByteVals, MaxSuffixBytes)
    /\ first = None /\ second = None
    /\ call = "none" /\ text = <<>> /\ result = None /\ df = 0
    /\ pc = "append" /\ f = 0 /\ log_freqs = <<>> /\ frequencies = <<>>
    /\ bits = 0 /\ raw = 0 /\ value = 0
    /\ DriverIdle

AppendSpectrum ==
    /\ call' = "spectrum"
    /\ first' = parse_borealis_spectrum(b64encode(bufB))
    /\ second' = parse_borealis_spectrum(b64encode(bufB \o bufC))
    /\ UNCHANGED <<bufB, bufC, text, result, df, freqVars, rescaleVars, driverVars>>

AppendStatistics ==
    /\ call' = "statistics"
    /\ first' = parse_borealis_levels_stats(b64encode(bufB))
    /\ second' = parse_borealis_levels_stats(b64encode(bufB \o bufC))
    /\ UNCHANGED <<bufB, bufC, text, result, df, freqVars, rescaleVars, driverVars>>

AppendPgram ==
    \E d \in PgramDfs :
        /\ call' = "pgram"
        /\ df' = d
        /\ first' = parse_borealis_pgram(b64encode(bufB), d)
        /\ second' = parse_borealis_pgram(b64encode(bufB \o bufC), d)
        /\ UNCHANGED <<bufB, bufC, text, result, freqVars, rescaleVars, driverVars>>

NextAppend == AppendSpectrum \/ AppendStatistics \/ AppendPgram

SpecAppend == InitAppend /\ [][NextAppend]_vars

(***************************************************************************)
(* The 12-bit unpacking applied to two buffers of whole groups that differ *)
(* in at most one byte.                                                    *)
(***************************************************************************)
InitUnpack ==
    /\ bufB \in GroupBuffers
    /\ bufC \in OneByteChanged(bufB)
    /\ first = <<>> /\ second = <<>>
    /\ pc = "unpack"
    /\ call = "none" /\ text = <<>> /\ result = None /\ df = 0
    /\ f = 0 /\ log_freqs = <<>> /\ frequencies = <<>>
    /\ bits = 0 /\ raw = 0 /\ value = 0
    /\ DriverIdle

Unpack ==
    /\ pc = "unpack"
    /\ first' = raw_samples(bufB)
    /\ second' = raw_samples(bufC)
    /\ pc' = "unpacked"
    /\ UNCHANGED <<bufB, bufC, df, f, log_freqs, frequencies, decodeVars, rescaleVars,
                   driverVars>>

NextUnpack == Unpack

SpecUnpack == InitUnpack /\ [][NextUnpack]_vars

(***************************************************************************)
(* The driver loop: one iteration of "for line in sys.stdin" per step.     *)
(***************************************************************************)
InitDriver ==
    /\ args \in DriverArgs
    /\ stdin \in SeqsUpTo(DriverLines, MaxLines)
    /\ lineno = 0 /\ line = <<>> /\ data_type = "None"
    /\ stdout = <<>> /\ stderr = <<>> /\ marks = <<>>
    /\ pc = "reading"
    /\ result = None /\ frequencies = <<>>
    /\ text = <<>> /\ call = "none" /\ df = 0 /\ f = 0 /\ log_freqs = <<>>
    /\ bits = 0 /\ raw = 0 /\ value = 0
    /\ PairIdle

\* The loop body ending the loop at a line whose decode returns None.
DriverLine_break ==
    /\ pc = "reading"
    /\ lineno < Len(stdin)
    /\ LET ln == rstrip(stdin[lineno + 1])
           dt == detect_type(args, ln)
           res == decode_line(dt, ln, args.df)
       IN /\ line' = ln
          /\ data_type' = dt
          /\ result' = res
          /\ frequencies' = IF dt = "pgram" /\ ~res.isNone
                            THEN calculate_pgram_frequencies(args.df)
                            ELSE frequencies
          /\ stdout' = stdout \o line_rows(dt, res, args.df)
          /\ stderr' = stderr \o line_notes(dt, res, args.df)
          /\ pc' = IF res = IndexError THEN "crashed"
                   ELSE IF res.isNone THEN "exit" ELSE "reading"
    /\ marks' = Append(marks, Len(stdout'))
    /\ lineno' = lineno + 1
    /\ UNCHANGED <<args, stdin, text, call, df, f, log_freqs, rescaleVars, pairVars>>

\* The loop body writing the header only when nothing has been written yet.
DriverLine_one_header ==
    /\ pc = "reading"
    /\ lineno < Len(stdin)
    /\ LET ln == rstrip(stdin[lineno + 1])
           dt == detect_type(args, ln)
           res == decode_line(dt, ln, args.df)
           rows == line_rows(dt, res, args.df)
       IN /\ line' = ln
          /\ data_type' = dt
          /\ result' = res
          /\ frequencies' = IF dt = "pgram" /\ ~res.isNone
                            THEN calculate_pgram_frequencies(args.df)
                            ELSE frequencies
          /\ stdout' = stdout \o (IF stdout = <<>> \/ rows = <<>> THEN rows ELSE Tail(rows))
          /\ stderr' = stderr \o line_notes(dt, res, args.df)
          /\ pc' = IF res = IndexError THEN "crashed" ELSE "reading"
    /\ marks' = Append(marks, Len(stdout'))
    /\ lineno' = lineno + 1
    /\ UNCHANGED <<args, stdin, text, call, df, f, log_freqs, rescaleVars, pairVars>>

\* The loop body for the next line: strip, choose the type, decode, write.
DriverLine ==
    /\ pc = "reading"
    /\ lineno < Len(stdin)
    /\ LET ln == rstrip(stdin[lineno + 1])
           dt == detect_type(args, ln)
           res == decode_line(dt, ln, args.df)
       IN /\ line' = ln
          /\ data_type' = dt
          /\ result' = res
          /\ frequencies' = IF dt = "pgram" /\ ~res.isNone
                            THEN calculate_pgram_frequencies(args.df)
                            ELSE frequencies
          /\ stdout' = stdout \o line_rows(dt, res, args.df)
          /\ stderr' = stderr \o line_notes(dt, res, args.df)
          /\ pc' = IF res = IndexError THEN "crashed" ELSE "reading"
    /\ marks' = Append(marks, Len(stdout'))
    /\ lineno' = lineno + 1
    /\ UNCHANGED <<args, stdin, text, call, df, f, log_freqs, rescaleVars, pairVars>>

\* The end of the input stream ends the loop and the program.
DriverExit ==
    /\ pc = "reading"
    /\ lineno = Len(stdin)
    /\ pc' = "exit"
    /\ UNCHANGED <<args, stdin, lineno, line, data_type, stdout, stderr, marks, text,
                   call, df, result, f, log_freqs, frequencies, rescaleVars, pairVars>>

NextDriver == DriverLine \/ DriverExit

SpecDriver == InitDriver /\ [][NextDriver]_vars

(***************************************************************************)
(* Properties of the decode functions (Spec).                              *)
(***************************************************************************)
\* The buffer the line in text decodes to, and whether the decode succeeded.
Decoded == b64decode(text)

BufLen == Len(Decoded.bytes)

Byte(i) == Decoded.bytes[i + 1]

\* 192 dB above the floor, the 12-bit step 192/4096 and the 8-bit step 0.75.
SplCeiling == MIN_BOREALIS_SPL_DB + 192 * DbScale

Step12 == (192 * DbScale) \div 4096

Step8 == (3 * DbScale) \div 4

\* C1: a text that base64-decodes to L bytes makes parse_borealis_spectrum
\* return a list (never None) of exactly floor(2L/3) values, for every L,
\* a multiple of 3 or not.
C1_SpectrumLength ==
    (call = "spectrum" /\ ~Decoded.raised) =>
        /\ ~result.isNone
        /\ 3 * Len(result.list) <= 2 * BufLen
        /\ 2 * BufLen < 3 * Len(result.list) + 3

C1_Witness ==
    /\ call = "spectrum" /\ ~Decoded.raised
    /\ BufLen = 5 /\ ~result.isNone /\ Len(result.list) = 3

\* The nibble k of the buffer: byte floor(k/2), low half when k is even.
Nibble(k) == IF k % 2 = 0 THEN Byte(k \div 2) % 16 ELSE Byte(k \div 2) \div 16

\* C2: raw spectrum sample d is nibble(3d) | nibble(3d+1) << 4 |
\* nibble(3d+2) << 8; equivalently sample 2j is byte[3j] | (byte[3j+1] & 0xF)
\* << 8 and sample 2j+1 is (byte[3j+1] >> 4) | byte[3j+2] << 4.
C2_NibbleOrder ==
    (call = "spectrum" /\ ~result.isNone) =>
        \A d \in 0..(Len(result.list) - 1) :
            /\ result.list[d + 1] =
                   (Nibble(3 * d) + 16 * Nibble(3 * d + 1) + 256 * Nibble(3 * d + 2))
                       * Step12 + MIN_BOREALIS_SPL_DB
            /\ LET j == d \div 2
               IN result.list[d + 1] =
                      (IF d % 2 = 0
                       THEN Byte(3 * j) + 256 * (Byte(3 * j + 1) % 16)
                       ELSE (Byte(3 * j + 1) \div 16) + 16 * Byte(3 * j + 2))
                          * Step12 + MIN_BOREALIS_SPL_DB

C2_Witness ==
    /\ call = "spectrum" /\ ~result.isNone
    /\ Len(result.list) = 3
    /\ Decoded.bytes = <<231, 0, 255, 0, 231>>
    /\ result.list[2] = 4080 * Step12 + MIN_BOREALIS_SPL_DB

IsAlphabetChar(c) ==
    \/ c >= 65 /\ c <= 90
    \/ c >= 97 /\ c <= 122
    \/ c >= 48 /\ c <= 57
    \/ c = 43
    \/ c = 47

\* A character that is neither in the base64 alphabet nor the pad.
HasCharOutsideAlphabet(t) ==
    \E i \in 1..Len(t) : ~IsAlphabetChar(t[i]) /\ t[i] # BASE64_PAD

\* A pad anywhere but in the last one or two places of a whole last group.
HasInvalidPadding(t) ==
    \E i \in 1..Len(t) :
        /\ t[i] = BASE64_PAD
        /\ ~(/\ Len(t) % 4 = 0
             /\ \/ i = Len(t)
                \/ i = Len(t) - 1 /\ t[Len(t)] = BASE64_PAD)

EndsInTruncatedGroup(t) == Len(t) % 4 # 0

NotValidBase64(t) ==
    HasCharOutsideAlphabet(t) \/ HasInvalidPadding(t) \/ EndsInTruncatedGroup(t)

\* C3: each of the three decode functions returns None whenever the text is
\* not valid base64 (a character outside the alphabet, invalid padding or a
\* truncated group).
C3_InvalidYieldsNone ==
    (call # "none" /\ NotValidBase64(text)) => result.isNone

\* The line of test_invalid_base64_handling does yield None.
C3_TestInputYieldsNone ==
    (call # "none" /\ text = invalid_input) => result.isNone

\* C4: every value parse_borealis_spectrum returns lies in
\* [MIN_SPL, MIN_SPL + 192], being raw * 192/4096 + MIN_SPL for a raw
\* sample in 0..4095.
C4_SpectrumRange ==
    (call = "spectrum" /\ ~result.isNone) =>
        \A i \in 1..Len(result.list) :
            /\ result.list[i] >= MIN_BOREALIS_SPL_DB
            /\ result.list[i] <= SplCeiling
            /\ (result.list[i] - MIN_BOREALIS_SPL_DB) % Step12 = 0
            /\ (result.list[i] - MIN_BOREALIS_SPL_DB) \div Step12 \in 0..4095

C4_Witness ==
    /\ call = "spectrum" /\ ~result.isNone
    /\ Len(result.list) = 4
    /\ result.list[1] = MIN_BOREALIS_SPL_DB
    /\ result.list[4] = 4095 * Step12 + MIN_BOREALIS_SPL_DB

\* C5: a buffer of L bytes makes parse_borealis_levels_stats return exactly
\* floor(L/4) rows of exactly 4 entries, entry k of row j being
\* byte[4j+k] * 0.75 + MIN_SPL; the L mod 4 trailing bytes are dropped and
\* the decode does not fail.
C5_StatisticsRows ==
    (call = "statistics" /\ ~Decoded.raised) =>
        /\ ~result.isNone
        /\ 4 * Len(result.list) <= BufLen
        /\ BufLen < 4 * Len(result.list) + 4
        /\ \A j \in 0..(Len(result.list) - 1) :
               /\ Len(result.list[j + 1]) = 4
               /\ \A k \in 0..3 :
                      result.list[j + 1][k + 1] =
                          Byte(4 * j + k) * Step8 + MIN_BOREALIS_SPL_DB

C5_Witness ==
    /\ call = "statistics" /\ ~Decoded.raised
    /\ BufLen = 9 /\ ~result.isNone /\ Len(result.list) = 2
    /\ result.list[2][1] # result.list[2][4]

\* C6: a buffer of L bytes makes parse_borealis_pgram return exactly L
\* values, value i being byte[i] * 0.75 + MIN_SPL.
C6_PgramBytes ==
    (call = "pgram" /\ ~Decoded.raised) =>
        /\ ~result.isNone
        /\ Len(result.list) = BufLen
        /\ \A i \in 0..(BufLen - 1) :
               result.list[i + 1] = Byte(i) * Step8 + MIN_BOREALIS_SPL_DB

C6_Witness ==
    /\ call = "pgram" /\ ~result.isNone
    /\ Len(result.list) = 5
    /\ result.list[1] # result.list[5]

\* The bytes the spectrum decode of the buffer reads.
SpectrumByteReads == {nibble_ibyte(n) : n \in spectrum_nibble_indices(Decoded.bytes)}

\* C16: for every buffer length L >= 0, parse_borealis_spectrum reads no byte
\* index outside 0..L-1: it asks for the nibbles 0..3*floor(2L/3) - 1, the
\* highest being <= 2L - 1, so no IndexError occurs, for L = 0, 1, 2 and for
\* lengths that are not a multiple of 3 as well.
C16_SpectrumReadsInBounds ==
    (call = "spectrum" /\ ~Decoded.raised) =>
        /\ result # IndexError
        /\ ~result.isNone
        /\ SpectrumByteReads \subseteq 0..(BufLen - 1)
        /\ spectrum_nibble_indices(Decoded.bytes) = 0..(3 * ((2 * BufLen) \div 3) - 1)
        /\ 3 * ((2 * BufLen) \div 3) - 1 <= 2 * BufLen - 1

C16_Witness ==
    /\ call = "spectrum" /\ ~Decoded.raised
    /\ BufLen = 5
    /\ 4 \in SpectrumByteReads
    /\ result # IndexError /\ Len(result.list) = 3

\* C17: the df argument has no influence on the result of
\* parse_borealis_pgram: whatever df the call was made with, the result is
\* the one every other df gives for the same text.
C17_PgramIgnoresDf ==
    call = "pgram" =>
        \A d \in PgramDfs : result = parse_borealis_pgram(text, d)

C17_Witness ==
    /\ call = "pgram" /\ df = 10000
    /\ ~result.isNone /\ Len(result.list) = 6
    /\ result = parse_borealis_pgram(text, 76290)

(***************************************************************************)
(* Properties of truncation and unpacking (SpecAppend, SpecUnpack).        *)
(***************************************************************************)
IsPrefix(s, t) == Len(s) <= Len(t) /\ SubSeq(t, 1, Len(s)) = s

\* C18: truncation is prefix-stable: for all buffers B and C the spectrum
\* decode of B is a prefix of the spectrum decode of B followed by C, and
\* likewise the statistics rows and the pgram samples; appending bytes
\* changes no sample already decoded.
C18_PrefixStable ==
    call # "none" =>
        /\ ~first.isNone /\ first # IndexError
        /\ ~second.isNone /\ second # IndexError
        /\ IsPrefix(first.list, second.list)

C18_Witness ==
    /\ call = "statistics"
    /\ Len(bufB) = 5 /\ Len(bufC) = 3
    /\ Len(first.list) = 1 /\ Len(second.list) = 2
    /\ IsPrefix(first.list, second.list)

\* The bytes two 12-bit samples pack into.
PackPair(s0, s1) == <<s0 % 256, (s0 \div 256) + 16 * (s1 % 16), s1 \div 16>>

SampleVals == {0, 1, 15, 16, 255, 256, 2730, 4095}

Group(b, j) == SubSeq(b, 3 * j + 1, 3 * j + 3)

\* Samples 2j and 2j+1 of b are in 0..4095, are what the group j alone
\* unpacks to, and pack back into the bytes of group j.
GroupsInvertible(b, samples) ==
    /\ Len(samples) = 2 * (Len(b) \div 3)
    /\ \A j \in 0..((Len(b) \div 3) - 1) :
           /\ samples[2 * j + 1] \in 0..4095
           /\ samples[2 * j + 2] \in 0..4095
           /\ <<samples[2 * j + 1], samples[2 * j + 2]>> = raw_samples(Group(b, j))
           /\ PackPair(samples[2 * j + 1], samples[2 * j + 2]) = Group(b, j)

\* C19: the 12-bit unpacking loses nothing on whole groups: raw samples 2j
\* and 2j+1 depend only on bytes 3j, 3j+1, 3j+2, the map from the 3 bytes to
\* the pair of samples is one-to-one and onto (0..4095) x (0..4095), and two
\* buffers of whole groups with the same raw samples are equal.
C19_UnpackBijective ==
    pc = "unpacked" =>
        /\ GroupsInvertible(bufB, first)
        /\ GroupsInvertible(bufC, second)
        /\ \A s0, s1 \in SampleVals :
               /\ \A i \in 1..3 : PackPair(s0, s1)[i] \in 0..255
               /\ raw_samples(PackPair(s0, s1)) = <<s0, s1>>
        /\ first = second => bufB = bufC

C19_Witness ==
    /\ pc = "unpacked"
    /\ Len(bufB) = 6 /\ bufC # bufB
    /\ Len(first) = 4 /\ first # second
    /\ first[1] = 15 + 256 * 15 /\ first[2] = 16 * 240

(***************************************************************************)
(* Properties of the driver loop (SpecDriver).                             *)
(***************************************************************************)
\* The rows written while line i of the stream was processed.
Rows(i) == SubSeq(stdout, (IF i = 1 THEN 0 ELSE marks[i - 1]) + 1, marks[i])

\* The type, the decode result and the output of line i taken on its own.
TypeOf(i) == detect_type(args, rstrip(stdin[i]))

DecodeOf(i) == decode_line(TypeOf(i), rstrip(stdin[i]), args.df)

OutputOf(i) == line_rows(TypeOf(i), DecodeOf(i), args.df)

\* C11: with no --data-type the type of each line is chosen from the length
\* of the right-stripped line: < 100 spectrum, 100..199 statistics, >= 200
\* pgram; a given --data-type is used for every line whatever its length.
C11_TypeByLength ==
    lineno > 0 =>
        LET n == Len(line)
            read == stdin[lineno]
        IN /\ IsPrefix(line, read)
           /\ \A i \in (n + 1)..Len(read) : IsSpace(read[i])
           /\ n > 0 => ~IsSpace(line[n])
           /\ args.data_type = "None" =>
                  /\ n < 100 => data_type = "spectrum"
                  /\ (100 <= n /\ n <= 199) => data_type = "statistics"
                  /\ n >= 200 => data_type = "pgram"
           /\ args.data_type # "None" => data_type = args.data_type
           /\ data_type = "spectrum" => result = parse_borealis_spectrum(line)
           /\ data_type = "statistics" => result = parse_borealis_levels_stats(line)
           /\ data_type = "pgram" => result = parse_borealis_pgram(line, args.df)

C11_Witness ==
    /\ lineno > 0 /\ args.data_type = "None"
    /\ Len(line) = 100 /\ Len(stdin[lineno]) = 102
    /\ data_type = "statistics" /\ ~result.isNone

RECURSIVE OutputUpTo(_)
OutputUpTo(n) ==
    IF n = 0 THEN <<>>
    ELSE OutputUpTo(n - 1) \o (IF DecodeOf(n).isNone THEN <<>> ELSE OutputOf(n))

\* C12: a line whose decode returns None makes the driver write nothing for
\* it and does not stop the loop: the loop ends only at the end of the
\* input, and the output is the concatenation, in input order, of the
\* outputs of the lines that decode.
C12_SkipAndContinue ==
    /\ pc \in {"reading", "exit"}
    /\ pc = "exit" => lineno = Len(stdin)
    /\ Len(marks) = lineno
    /\ \A i \in 1..lineno : DecodeOf(i).isNone => Rows(i) = <<>>
    /\ stdout = OutputUpTo(lineno)

C12_Witness ==
    /\ pc = "exit" /\ lineno = 2
    /\ DecodeOf(1).isNone /\ ~DecodeOf(2).isNone
    /\ Rows(1) = <<>> /\ Len(Rows(2)) > 1
    /\ stdout = Rows(2)

\* C13: when a pgram line decodes to more samples than
\* calculate_pgram_frequencies(df) has entries, the driver writes a row for
\* every sample: sample i < len(frequencies) is labelled frequencies[i],
\* every sample i >= len(frequencies) is labelled "Unknown".
C13_UnknownBeyondAxis ==
    (lineno > 0 /\ data_type = "pgram" /\ ~result.isNone) =>
        LET rows == Rows(lineno)
        IN /\ frequencies = calculate_pgram_frequencies(args.df)
           /\ Len(rows) = 1 + Len(result.list)
           /\ \A i \in 0..(Len(result.list) - 1) :
                  /\ Len(rows[i + 2]) = 2
                  /\ rows[i + 2][2] = format_2f_db(result.list[i + 1])
                  /\ i < Len(frequencies) =>
                         rows[i + 2][1] = format_2f_hz(frequencies[i + 1])
                  /\ i >= Len(frequencies) => rows[i + 2][1] = Unknown

C13_Witness ==
    /\ lineno > 0 /\ data_type = "pgram" /\ ~result.isNone
    /\ Len(result.list) = 150 /\ Len(frequencies) = 33
    /\ Rows(lineno)[34][1] # Unknown
    /\ Rows(lineno)[35][1] = Unknown
    /\ Rows(lineno)[151][1] = Unknown

\* C14: there is no cross-line state: for fixed arguments the rows written
\* for a line depend only on the line's text; they are the rows the line
\* gives on its own, whatever lines were processed before it.
C14_NoCrossLineState ==
    /\ \A i \in 1..lineno : Rows(i) = OutputOf(i)
    /\ \A i, j \in 1..lineno :
           rstrip(stdin[i]) = rstrip(stdin[j]) => Rows(i) = Rows(j)

C14_Witness ==
    /\ lineno = 2
    /\ stdin[1] = short_line /\ stdin[2] = short_line
    /\ Len(Rows(1)) = 4 /\ Rows(2) = Rows(1)

\* f"{10 ** ((k + 16) / 10):.2f}" for k = 0..9: "39.81", "50.12", "63.10",
\* "79.43", "100.00", "125.89", "158.49", "199.53", "251.19", "316.23".
AnsiLabels ==
    <<<<51, 57, 46, 56, 49>>,
      <<53, 48, 46, 49, 50>>,
      <<54, 51, 46, 49, 48>>,
      <<55, 57, 46, 52, 51>>,
      <<49, 48, 48, 46, 48, 48>>,
      <<49, 50, 53, 46, 56, 57>>,
      <<49, 53, 56, 46, 52, 57>>,
      <<49, 57, 57, 46, 53, 51>>,
      <<50, 53, 49, 46, 49, 57>>,
      <<51, 49, 54, 46, 50, 51>>>>

\* C15: for a decoded spectrum or statistics line the driver writes one data
\* row per sample (or statistics row), in index order, row k pairing the
\* ANSI frequency of band k, 10^((k+16)/10), with decoded element k, and no
\* row is labelled "Unknown".
C15_AnsiRowsByIndex ==
    (lineno > 0 /\ data_type \in {"spectrum", "statistics"} /\ ~result.isNone) =>
        LET rows == Rows(lineno)
        IN /\ Len(rows) = 1 + Len(result.list)
           /\ \A k \in 0..(Len(result.list) - 1) :
                  /\ rows[k + 2][1] =
                         format_2f_ansi(calculate_ansi_midband_frequency(k))
                  /\ k < 10 => rows[k + 2][1] = AnsiLabels[k + 1]
                  /\ rows[k + 2][1] # Unknown
                  /\ data_type = "spectrum" =>
                         Tail(rows[k + 2]) = <<format_2f_db(result.list[k + 1])>>
                  /\ data_type = "statistics" =>
                         Tail(rows[k + 2]) =
                             [c \in 1..4 |-> format_2f_db(result.list[k + 1][c])]

C15_Witness ==
    /\ lineno > 0 /\ data_type = "statistics" /\ ~result.isNone
    /\ Len(result.list) = 18
    /\ Len(Rows(lineno)) = 19
    /\ Rows(lineno)[2][1] = AnsiLabels[1]
    /\ Len(Rows(lineno)[19]) = 5

HeaderOf(dt) ==
    IF dt = "statistics" THEN <<Frequency>> \o StatsColumns ELSE <<Frequency, SPL_dB>>

IsHeader(row) == row[1] = Frequency

\* C20: an empty or whitespace-only line is no decode failure: it decodes to
\* a zero-byte buffer, each decode function returns an empty list, not
\* None, and the driver, auto-detecting spectrum, writes the header and no
\* data row; the driver writes one header per decoded line, not one per
\* stream.
C20_EmptyLineHeaderOnly ==
    /\ (lineno > 0 /\ line = <<>>) =>
           /\ b64decode(line) = Returned(<<>>)
           /\ parse_borealis_spectrum(line) = Some(<<>>)
           /\ parse_borealis_levels_stats(line) = Some(<<>>)
           /\ parse_borealis_pgram(line, args.df) = Some(<<>>)
           /\ result = Some(<<>>)
           /\ args.data_type = "None" => data_type = "spectrum"
           /\ Rows(lineno) = <<HeaderOf(data_type)>>
    /\ \A i \in 1..lineno :
           ~DecodeOf(i).isNone =>
               /\ Rows(i) # <<>>
               /\ Rows(i)[1] = HeaderOf(TypeOf(i))
               /\ \A k \in 2..Len(Rows(i)) : ~IsHeader(Rows(i)[k])
    /\ Cardinality({k \in 1..Len(stdout) : IsHeader(stdout[k])})
           = Cardinality({i \in 1..lineno : ~DecodeOf(i).isNone})

C20_Witness ==
    /\ lineno = 2 /\ args.data_type = "None"
    /\ stdin = <<blank_line, empty_line>>
    /\ line = <<>> /\ data_type = "spectrum"
    /\ stdout = <<<<Frequency, SPL_dB>>, <<Frequency, SPL_dB>>>>

(***************************************************************************)
(* Properties of the calibration transform (SpecRescale).                  *)
(***************************************************************************)
\* C7: value = raw * step + MIN_SPL with step = 192 / 2^bits (0.75 for 8
\* bits, 192/4096 for 12 bits) maps raw 0 to exactly MIN_SPL and raw
\* 2^bits - 1 to MIN_SPL + 192 - 192/2^bits, below MIN_SPL + 192.
C7_RescaleEnds ==
    pc = "rescaled" =>
        /\ (192 * DbScale) % Pow2(bits) = 0
        /\ value - MIN_BOREALIS_SPL_DB = raw * ((192 * DbScale) \div Pow2(bits))
        /\ bits = 8 => value = raw * Step8 + MIN_BOREALIS_SPL_DB
        /\ bits = 12 => value = raw * Step12 + MIN_BOREALIS_SPL_DB
        /\ raw = 0 => value = MIN_BOREALIS_SPL_DB
        /\ raw = Pow2(bits) - 1 =>
               /\ value = SplCeiling - (192 * DbScale) \div Pow2(bits)
               /\ value < SplCeiling

C7_Witness == pc = "rescaled" /\ bits = 12 /\ raw = 4095 /\ value < SplCeiling

(***************************************************************************)
(* Properties of calculate_pgram_frequencies (SpecFreq).                   *)
(***************************************************************************)
IsStrictlyIncreasing(seq) == \A i \in 1..(Len(seq) - 1) : seq[i] < seq[i + 1]

\* C8: for every df > 0 the returned list is strictly increasing over its
\* whole length, across the linear/log boundary and with an empty log
\* region, and its first two elements are 2*df and 3*df.
C8_StrictlyIncreasing ==
    pc = "returned" =>
        /\ IsStrictlyIncreasing(frequencies)
        /\ frequencies[1] = 2 * df
        /\ frequencies[2] = 3 * df

C8_Witness ==
    /\ pc = "returned"
    /\ Len(log_freqs) > 0
    /\ Len(frequencies) = 33 + Len(log_freqs)
    /\ frequencies[33] < frequencies[34]

\* 2^(r/24) for r = 0..23, in billionths.
TwoToThe ==
    <<1000000000, 1029302237, 1059463094, 1090507733, 1122462048, 1155352697,
      1189207115, 1224053543, 1259921050, 1296839555, 1334839854, 1373953647,
      1414213562, 1455653183, 1498307077, 1542210825, 1587401052, 1633915453,
      1681792831, 1731073122, 1781797436, 1834008086, 1887748625, 1943063882>>

\* 35 * df * 2^(k/24), rounded to the unit.
LogBin(k) == MulBillionths(35 * df * Pow2(k \div 24), TwoToThe[(k % 24) + 1])

\* Equality up to the rounding of the repeated multiplication (1e-4 relative).
Near(x, y) == (IF x < y THEN y - x ELSE x - y) <= (y \div 10000) + 1

LinearRegionOK ==
    /\ Len(frequencies) >= 33
    /\ \A i \in 2..34 : frequencies[i - 1] = i * df
    /\ frequencies[35 - 2] = (35 - 1) * df

LogRegionValuesOK ==
    /\ Len(frequencies) = 33 + Len(log_freqs)
    /\ Len(log_freqs) <= 200
    /\ \A k \in 0..(Len(log_freqs) - 1) :
           /\ frequencies[33 + k + 1] = log_freqs[k + 1]
           /\ Near(log_freqs[k + 1], LogBin(k))
           /\ log_freqs[k + 1] <= 20000 * FreqScale

\* C9 as stated: the list is the 33 linear values i*df, i = 2..34, then the
\* values 35*df*2^(k/24), k = 0, 1, ..., that are <= 20000 Hz, none above,
\* at most 200 of them, the cap of 200 cutting off no value <= 20000 Hz.
C9_CapNeverBinds ==
    pc = "returned" =>
        /\ LinearRegionOK
        /\ LogRegionValuesOK
        /\ LogBin(Len(log_freqs)) > 20000 * FreqScale

\* C9 amended: the log region is the values 35*df*2^(k/24), k = 0, 1, ...,
\* in order, ending before the first value above 20000 Hz or after 200
\* entries, whichever comes first; values <= 20000 Hz are cut off only by
\* the cap of 200.
C9_LogRegionUpToCap ==
    pc = "returned" =>
        /\ LinearRegionOK
        /\ LogRegionValuesOK
        /\ Len(log_freqs) < 200 => LogBin(Len(log_freqs)) > 20000 * FreqScale

C9_Witness ==
    /\ pc = "returned"
    /\ df = 76290
    /\ Len(log_freqs) = 150
    /\ Len(frequencies) = 183
    /\ LogBin(150) > 20000 * FreqScale

====
